---- MODULE Spec2Model ----
(***************************************************************************)
(* Model of the Dragonfly flight-control core: the PID control bank        *)
(* (pid_control.c), the rotation transformation (rotation_transformation.c)*)
(* with the magnetometer attitude recovery, the interrupt-to-task sensor   *)
(* event pipeline (fcb_sensors.h, main.c), the interrupt callbacks of      *)
(* main.c, the control task reading the attitude estimate                  *)
(* (state_estimation.h) and the print sampling task of motor_control.c.    *)
(*                                                                         *)
(* float32_t values are modelled as exact extended rationals <<n, d>>:     *)
(* d > 0 is the rational n/d in lowest terms, <<1,0>> is +Inf, <<-1,0>> is *)
(* -Inf and <<0,0>> is NaN, with the IEEE-754 rules for division by zero   *)
(* and for operations on Inf and NaN.  Rounding is not modelled.           *)
(***************************************************************************)
EXTENDS Integers, Sequences, FiniteSets, TLC

(***************************************************************************)
(* float32_t arithmetic                                                    *)
(***************************************************************************)
RECURSIVE GCD(_, _)
GCD(a, b) == IF b = 0 THEN a ELSE GCD(b, a % b)

Abs(x) == IF x < 0 THEN -x ELSE x

Sign(x) == IF x > 0 THEN 1 ELSE IF x < 0 THEN -1 ELSE 0

\* The float value n/d (d may be negative or zero), in canonical form.
F(n, d) ==
    IF d = 0 THEN <<Sign(n), 0>>
    ELSE LET g == GCD(Abs(n), Abs(d))
             s == Sign(d)
         IN  <<(s * n) \div g, (s * d) \div g>>

NaN == <<0, 0>>
PosInf == <<1, 0>>
NegInf == <<-1, 0>>
Zero == <<0, 1>>
One == <<1, 1>>

IsNaN(a) == a = NaN
IsFinite(a) == a[2] > 0

FAdd(a, b) ==
    IF a[2] = 0 /\ b[2] = 0
    THEN (IF a[1] = b[1] THEN a ELSE NaN)
    ELSE F(a[1] * b[2] + b[1] * a[2], a[2] * b[2])

FNeg(a) == <<-a[1], a[2]>>

FSub(a, b) == FAdd(a, FNeg(b))

FMul(a, b) == F(a[1] * b[1], a[2] * b[2])

FDiv(a, b) == F(a[1] * b[2], a[2] * b[1])

FLt(a, b) ==
    /\ ~IsNaN(a)
    /\ ~IsNaN(b)
    /\ IF a[2] = 0 /\ b[2] = 0 THEN a[1] < b[1]
       ELSE a[1] * b[2] < b[1] * a[2]

FGt(a, b) == FLt(b, a)

FLe(a, b) == FLt(a, b) \/ (~IsNaN(a) /\ a = b)

\* Integer square root, exact on the perfect squares the model feeds it.
ISqrt(n) == CHOOSE r \in 0..n : r * r <= n /\ (r + 1) * (r + 1) > n

\* sqrt() of <math.h>: NaN for a negative argument.
FSqrt(a) ==
    IF IsNaN(a) \/ a[1] < 0 THEN NaN
    ELSE IF a[2] = 0 THEN PosInf
    ELSE F(ISqrt(a[1]), ISqrt(a[2]))

(***************************************************************************)
(* Bounds of the model                                                     *)
(***************************************************************************)
MaxCalls == 3       \* UpdatePIDControl calls on the controller under test
MaxPeriods == 2     \* control periods of UpdatePIDControlSignals
MaxPosts == 4       \* sensor events posted from interrupt context
MaxMagCalls == 2    \* GetAttitudeFromMagnetometer calls
MaxCycles == 2      \* predict+correct cycles of the attitude estimator
MaxIrqs == 4        \* interrupt callbacks run
MaxStarts == 2      \* StartMotorControlSamplingTask calls
MaxTick == 3000     \* RTOS ticks the sampling task is followed for

VARIABLES
    \* pid_control.c, one controller under test
    pidForm,            \* which PID_USE_*_FORM macro the build defines
    ctrl,               \* the PIDController_TypeDef under test
    inputs,             \* history: <<ctrlState, refSignal>> of every call
    tmpControlSignal,   \* local of the last call: signal before saturation
    controlSignal,      \* value returned by the last call
    IBeforeBackCalc,    \* history: I of the last call before back calculation
    \* pid_control.c, the four controllers of the control task
    AltCtrl, RollCtrl, PitchCtrl, YawCtrl,
    pidInitDone,        \* InitPIDControllers has run
    ctrlSignals,        \* the CtrlSignals_TypeDef the control task passes in
    written,            \* history: fields of *ctrlSignals the last call assigned
    lastPeriod,         \* history: controller, state and reference per axis
    periods,            \* control periods so far
    \* rotation_transformation.c
    DCM, DCMInv,        \* the arm_matrix_instance_f32 globals
    stack,              \* storage of the local arrays DCMInvInit and DCMUpdate
    rotState,           \* "reset", "initialised" (Init returned), "updated"
    srcVector, dstVector, \* arguments of the last Vector3DNormalize call
    normalizeCalled,
    bodyMagneticReadings, inertialMagneticVector, \* arguments of the last
    dstAttitude,          \* GetAttitudeFromMagnetometer call and its result
    magAngles,            \* history: the angles the body reading was made with
    magCalls,             \* GetAttitudeFromMagnetometer calls so far
    \* fcb_sensors.h / main.c
    qFcbSensors,        \* the sensor message queue
    processing,         \* tags the tFcbSensors thread has taken and not finished
    posted,             \* history: every tag posted from interrupt context
    accepted,           \* history: the posted tags the queue took
    dispatched,         \* history: tags whose dispatch completed
    UserButtonPressed,  \* volatile uint8_t of main.c
    led7,               \* state of LED7
    \* state_estimation.h and the control task running against the sensor task
    estimate,           \* per axis: the AttitudeStateVectorType of the filter
    estCycle,           \* predict+correct cycles begun
    estPhase,           \* "corrected": cycle complete, "predicted": half done
    ctrlPc,             \* the statement UpdatePIDControlSignals executes next
    angleRead,          \* history: <<estCycle, estPhase>> at each accessor call
    \* main.c: the interrupt callbacks
    uwTick,             \* the HAL tick HAL_IncTick increments
    kicks,              \* static uint32_t of HAL_SYSTICK_Callback
    led9,               \* state of LED9
    schedulerState,     \* what xTaskGetSchedulerState returns
    rtosTickCalls,      \* calls of xPortSysTickHandler
    receiverUpdate,     \* the receiver routine last called from a timer callback
    errorHandlerCalled, \* ErrorHandler was entered
    irqCount,           \* history: interrupt callbacks run
    lastIrq,            \* history: the last callback and its argument
    sysTickIrqs,        \* history: HAL_SYSTICK_Callback invocations
    uwTickAtStart,      \* history: uwTick when the scheduler was started
    \* motor_control.c: the print sampling task
    MotorControlPrintSamplingTaskHandle,  \* 0 is NULL, else the task referred to
    motorControlPrintSampleTime,          \* static volatile uint16_t
    motorControlPrintSampleDuration,      \* static volatile uint16_t
    xTickCount,         \* what xTaskGetTickCount returns
    tasks,              \* per task created: its state and its two locals
    taskLog,            \* history per task: the sampleDuration asked for, the
                        \* vTaskDelete calls on it, the tick of its last wake-up
                        \* and the tick at which its own expiry check deleted it
    lastStop            \* history: the last StopMotorControlSamplingTask call

buildVars == <<pidForm>>
pidVars == <<ctrl, inputs, tmpControlSignal, controlSignal, IBeforeBackCalc>>
ctrlVars == <<AltCtrl, RollCtrl, PitchCtrl, YawCtrl, pidInitDone, ctrlSignals,
              written, lastPeriod, periods>>
rotVars == <<DCM, DCMInv, stack, rotState, srcVector, dstVector, normalizeCalled>>
magVars == <<bodyMagneticReadings, inertialMagneticVector, dstAttitude, magAngles,
             magCalls>>
pipeVars == <<qFcbSensors, processing, posted, accepted, dispatched,
              UserButtonPressed, led7>>
estVars == <<estimate, estCycle, estPhase, ctrlPc, angleRead>>
irqVars == <<uwTick, kicks, led9, schedulerState, rtosTickCalls, receiverUpdate,
             errorHandlerCalled, irqCount, lastIrq, sysTickIrqs, uwTickAtStart>>
motorVars == <<MotorControlPrintSamplingTaskHandle, motorControlPrintSampleTime,
               motorControlPrintSampleDuration, xTickCount, tasks, taskLog, lastStop>>
vars == <<buildVars, pidVars, ctrlVars, rotVars, pipeVars, magVars, estVars, irqVars,
          motorVars>>

(***************************************************************************)
(* pid_control.c                                                           *)
(***************************************************************************)
PIDForms == {"PID_USE_CLASSIC_FORM", "PID_USE_PARALLEL_FORM", "none"}

\* flight_control.h is not part of the sources; the period is in milliseconds.
FLIGHT_CONTROL_TASK_PERIOD == 500

CONTROL_PERIOD == FDiv(F(FLIGHT_CONTROL_TASK_PERIOD, 1), F(1000, 1))

\* P = K*(Beta*refSignal - ctrlState)
ProportionalPart(c, ctrlState, refSignal) ==
    FMul(c.K, FSub(FMul(c.Beta, refSignal), ctrlState))

IntegralPart(form, c, ctrlState, refSignal) ==
    CASE form = "PID_USE_CLASSIC_FORM" ->
            IF FGt(c.Ti, Zero)
            THEN FAdd(c.I, FMul(FDiv(FMul(c.K, CONTROL_PERIOD), c.Ti),
                                FSub(refSignal, ctrlState)))
            ELSE c.I
      [] form = "PID_USE_PARALLEL_FORM" ->
            IF c.useIntegralAction
            THEN FAdd(c.I, FMul(FMul(c.Ti, CONTROL_PERIOD),
                                FSub(refSignal, ctrlState)))
            ELSE c.I
      [] OTHER -> c.I

\* The derivative error taken without the previous state and reference.
DerivativeError_NoHistory(c, ctrlState, refSignal) ==
    FSub(FMul(c.Gamma, refSignal), ctrlState)

\* Gamma*(refSignal - preRef) - (ctrlState - preState)
DerivativeError(c, ctrlState, refSignal) ==
    FSub(FMul(c.Gamma, FSub(refSignal, c.preRef)), FSub(ctrlState, c.preState))

DerivativePart(form, c, ctrlState, refSignal) ==
    LET den == FAdd(c.Td, FMul(c.N, CONTROL_PERIOD))
    IN  CASE form = "PID_USE_CLASSIC_FORM" ->
                FAdd(FMul(FDiv(c.Td, den), c.D),
                     FMul(FDiv(FMul(FMul(c.K, c.Td), c.N), den),
                          DerivativeError(c, ctrlState, refSignal)))
          [] form = "PID_USE_PARALLEL_FORM" ->
                FAdd(FMul(FDiv(c.Td, den), c.D),
                     FMul(FDiv(FMul(c.Td, c.N), den),
                          DerivativeError(c, ctrlState, refSignal)))
          [] OTHER -> c.D

\* (P + I + D + ctrlSignalOffset) * ctrlSignalScaling
RawControlSignal(c) ==
    FMul(FAdd(FAdd(FAdd(c.P, c.I), c.D), c.ctrlSignalOffset), c.ctrlSignalScaling)

\* Saturate with the upper limit forgotten.
Saturate_NoUpperLimit(c, signal) ==
    IF FLt(signal, c.lowerSatLimit) THEN c.lowerSatLimit ELSE signal

Saturate(c, signal) ==
    IF FLt(signal, c.lowerSatLimit) THEN c.lowerSatLimit
    ELSE IF FGt(signal, c.upperSatLimit) THEN c.upperSatLimit
    ELSE signal

\* I after the back calculation step
BackCalculation(c, tmpSignal, satSignal) ==
    IF c.useIntegralAction
    THEN FAdd(c.I, FMul(FDiv(CONTROL_PERIOD, c.Tt), FSub(tmpSignal, satSignal)))
    ELSE c.I

\* The whole of UpdatePIDControl: the controller after the call, the value
\* returned, and the locals the claims speak about.
UpdatePIDControl(form, c, ctrlState, refSignal) ==
    LET c1 == [c EXCEPT !.P = ProportionalPart(c, ctrlState, refSignal)]
        c2 == [c1 EXCEPT !.I = IntegralPart(form, c1, ctrlState, refSignal),
                         !.D = DerivativePart(form, c1, ctrlState, refSignal)]
        tmp == RawControlSignal(c2)
        sat == Saturate(c2, tmp)
        c3 == [c2 EXCEPT !.I = BackCalculation(c2, tmp, sat)]
    IN  [ctrl |-> [c3 EXCEPT !.preState = ctrlState, !.preRef = refSignal],
         ret |-> sat,
         tmp |-> tmp,
         IBefore |-> c2.I]

\* A controller as InitPIDControllers sets one up: the tuning values given,
\* Tt = sqrt(Ti*Td), the running terms and the history zero.
NewController(K, Ti, Td, Beta, Gamma, N, upper, lower, scaling, offset, useI) ==
    [K |-> K, Ti |-> Ti, Td |-> Td, Tt |-> FSqrt(FMul(Ti, Td)),
     Beta |-> Beta, Gamma |-> Gamma, N |-> N,
     P |-> Zero, I |-> Zero, D |-> Zero, preState |-> Zero, preRef |-> Zero,
     upperSatLimit |-> upper, lowerSatLimit |-> lower,
     ctrlSignalScaling |-> scaling, ctrlSignalOffset |-> offset,
     useIntegralAction |-> useI]

\* Tuning values the controller under test is drawn from.
GainValues == {F(2, 1)}
TimeValues == {F(0, 1), F(1, 1)}
BetaValues == {F(1, 1), F(1, 2)}
GammaValues == {F(0, 1), F(1, 2)}
FilterN == F(2, 1)
\* <<upperSatLimit, lowerSatLimit, ctrlSignalScaling, ctrlSignalOffset>>
OutputConfigs == {<<F(2, 1), F(-2, 1), F(1, 1), F(0, 1)>>,
                  <<F(0, 1), F(-3, 1), F(2, 1), F(-1, 1)>>}

\* Controllers with lowerSatLimit <= upperSatLimit, the resting output
\* ctrlSignalOffset*ctrlSignalScaling inside the limits, and Tt > 0 whenever
\* integral action (and with it the division by Tt) is enabled.
TestControllers ==
    {NewController(k, ti, td, b, g, FilterN, o[1], o[2], o[3], o[4], u) :
        <<k, ti, td, b, g, o, u>> \in
            {x \in GainValues \X TimeValues \X TimeValues \X BetaValues
                    \X GammaValues \X OutputConfigs \X BOOLEAN :
                x[7] => (FGt(x[2], Zero) /\ FGt(x[3], Zero))}}

\* <<ctrlState, refSignal>> pairs fed to the controller under test.
PIDInputs == {<<F(0, 1), F(0, 1)>>, <<F(1, 1), F(2, 1)>>, <<F(2, 1), F(2, 1)>>,
              <<F(0, 1), F(4, 1)>>, <<F(0, 1), F(-4, 1)>>}

BuildAny == pidForm \in PIDForms
BuildFixed == pidForm = "PID_USE_PARALLEL_FORM"

PIDInit ==
    /\ ctrl \in TestControllers
    /\ inputs = <<>>
    /\ tmpControlSignal = Zero
    /\ controlSignal = Zero
    /\ IBeforeBackCalc = Zero

\* The controller under test left alone.
PIDIdle ==
    /\ ctrl = NewController(Zero, Zero, Zero, Zero, Zero, Zero, Zero, Zero, Zero, Zero, FALSE)
    /\ inputs = <<>>
    /\ tmpControlSignal = Zero
    /\ controlSignal = Zero
    /\ IBeforeBackCalc = Zero

CallUpdatePIDControl ==
    /\ Len(inputs) < MaxCalls
    /\ \E in \in PIDInputs :
          LET r == UpdatePIDControl(pidForm, ctrl, in[1], in[2])
          IN  /\ ctrl' = r.ctrl
              /\ controlSignal' = r.ret
              /\ tmpControlSignal' = r.tmp
              /\ IBeforeBackCalc' = r.IBefore
              /\ inputs' = Append(inputs, in)
    /\ UNCHANGED <<buildVars, ctrlVars, rotVars, pipeVars, magVars, estVars, irqVars, motorVars>>

(***************************************************************************)
(* pid_control.c: the control bank of the control task.  The tuning macros *)
(* come from headers that are not part of the sources; the values below    *)
(* stand for them.                                                         *)
(***************************************************************************)
K_VZ == F(1, 1)
TI_VZ == F(0, 1)
TD_VZ == F(0, 1)
BETA_VZ == F(1, 1)
GAMMA_VZ == F(0, 1)
N_VZ == F(2, 1)
MAX_THRUST == F(40, 1)
MASS == F(2, 1)
G_ACC == F(10, 1)
K_RP == F(2, 1)
TI_RP == F(0, 1)
TD_RP == F(1, 1)
BETA_RP == F(1, 1)
GAMMA_RP == F(0, 1)
N_RP == F(2, 1)
MAX_ROLLPITCH_MOM == F(2, 1)
IXX == F(1, 2)
IYY == F(1, 2)
K_YR == F(1, 1)
TI_YR == F(0, 1)
TD_YR == F(0, 1)
BETA_YR == F(1, 1)
GAMMA_YR == F(0, 1)
N_YR == F(2, 1)
MAX_YAW_MOM == F(1, 1)
IZZ == F(1, 1)

\* A static PIDController_TypeDef before InitPIDControllers: all zero.
ZeroController ==
    [K |-> Zero, Ti |-> Zero, Td |-> Zero, Tt |-> Zero,
     Beta |-> Zero, Gamma |-> Zero, N |-> Zero,
     P |-> Zero, I |-> Zero, D |-> Zero, preState |-> Zero, preRef |-> Zero,
     upperSatLimit |-> Zero, lowerSatLimit |-> Zero,
     ctrlSignalScaling |-> Zero, ctrlSignalOffset |-> Zero,
     useIntegralAction |-> FALSE]

InitAltCtrl ==
    NewController(K_VZ, TI_VZ, TD_VZ, BETA_VZ, GAMMA_VZ, N_VZ,
                  Zero, FNeg(MAX_THRUST), MASS, FNeg(G_ACC), FALSE)

InitRollCtrl ==
    NewController(K_RP, TI_RP, TD_RP, BETA_RP, GAMMA_RP, N_RP,
                  MAX_ROLLPITCH_MOM, FNeg(MAX_ROLLPITCH_MOM), IXX, Zero, FALSE)

InitPitchCtrl ==
    NewController(K_RP, TI_RP, TD_RP, BETA_RP, GAMMA_RP, N_RP,
                  MAX_ROLLPITCH_MOM, FNeg(MAX_ROLLPITCH_MOM), IYY, Zero, FALSE)

InitYawCtrl ==
    NewController(K_YR, TI_YR, TD_YR, BETA_YR, GAMMA_YR, N_YR,
                  MAX_YAW_MOM, FNeg(MAX_YAW_MOM), IZZ, Zero, FALSE)

CtrlSignalFields == {"Thrust", "RollMoment", "PitchMoment", "YawMoment"}

\* What the caller's CtrlSignals_TypeDef may hold before it is first written.
IndeterminateValues == {F(0, 1), F(-7, 1)}

\* Values of the fused angles and of the reference signals in one period.
AttitudeValues == {F(0, 1), F(1, 1)}
ReferenceValues == {F(0, 1), F(1, 1)}

NoPeriod == [RollMoment |-> <<>>, PitchMoment |-> <<>>, YawMoment |-> <<>>]

CtrlPowerOn ==
    /\ AltCtrl = ZeroController
    /\ RollCtrl = ZeroController
    /\ PitchCtrl = ZeroController
    /\ YawCtrl = ZeroController
    /\ pidInitDone = FALSE
    /\ written = {}
    /\ lastPeriod = NoPeriod
    /\ periods = 0

CtrlInit ==
    /\ CtrlPowerOn
    /\ \E u \in IndeterminateValues : ctrlSignals = [f \in CtrlSignalFields |-> u]

CtrlIdle ==
    /\ CtrlPowerOn
    /\ ctrlSignals = [f \in CtrlSignalFields |-> Zero]

InitPIDControllers ==
    /\ AltCtrl' = InitAltCtrl
    /\ RollCtrl' = InitRollCtrl
    /\ PitchCtrl' = InitPitchCtrl
    /\ YawCtrl' = InitYawCtrl
    /\ pidInitDone' = TRUE
    /\ UNCHANGED <<ctrlSignals, written, lastPeriod, periods>>
    /\ UNCHANGED <<buildVars, pidVars, rotVars, pipeVars, magVars, estVars, irqVars, motorVars>>

\* One control period.  The Thrust assignment is commented out in the source.
UpdatePIDControlSignals ==
    /\ pidInitDone
    /\ periods < MaxPeriods
    /\ \E roll \in AttitudeValues, pitch \in AttitudeValues, yaw \in AttitudeValues,
          rollRef \in ReferenceValues, pitchRef \in {Zero}, yawRateRef \in {Zero} :
          LET r == UpdatePIDControl(pidForm, RollCtrl, roll, rollRef)
              p == UpdatePIDControl(pidForm, PitchCtrl, pitch, pitchRef)
              y == UpdatePIDControl(pidForm, YawCtrl, yaw, yawRateRef)
          IN  /\ RollCtrl' = r.ctrl
              /\ PitchCtrl' = p.ctrl
              /\ YawCtrl' = y.ctrl
              /\ ctrlSignals' = [ctrlSignals EXCEPT !.RollMoment = r.ret,
                                                    !.PitchMoment = p.ret,
                                                    !.YawMoment = y.ret]
              /\ lastPeriod' = [RollMoment |-> <<RollCtrl, roll, rollRef>>,
                                PitchMoment |-> <<PitchCtrl, pitch, pitchRef>>,
                                YawMoment |-> <<YawCtrl, yaw, yawRateRef>>]
    /\ written' = {"RollMoment", "PitchMoment", "YawMoment"}
    /\ periods' = periods + 1
    /\ UNCHANGED <<AltCtrl, pidInitDone>>
    /\ UNCHANGED <<buildVars, pidVars, rotVars, pipeVars, magVars, estVars, irqVars, motorVars>>

(***************************************************************************)
(* rotation_transformation.c.  A 3x3 matrix is its float32_t[9] array in   *)
(* row-major order.  arm_mat_init_f32 stores the address of the array it   *)
(* is given, so DCM.pData and DCMInv.pData name the local array they point *)
(* to and stack holds the contents of those arrays.                        *)
(***************************************************************************)
Frames == {"DCMInvInit", "DCMUpdate"}

Identity3 == <<One, Zero, Zero,  Zero, One, Zero,  Zero, Zero, One>>

ZeroMatrix == [i \in 1..9 |-> Zero]

\* The initializer of the local DCMInvInit, as written in the source.
DCMInvInit == <<One, Zero, One,  Zero, One, Zero,  Zero, Zero, One>>

NullMatrixInstance == [numRows |-> 0, numCols |-> 0, pData |-> "NULL"]

arm_mat_init_f32(nRows, nColumns, pData) ==
    [numRows |-> nRows, numCols |-> nColumns, pData |-> pData]

MatTranspose(m) == [i \in 1..9 |-> m[3 * ((i - 1) % 3) + ((i - 1) \div 3) + 1]]

MatMul(a, b) ==
    [i \in 1..9 |->
        LET r == (i - 1) \div 3
            c == (i - 1) % 3
        IN  FAdd(FAdd(FMul(a[3 * r + 1], b[c + 1]), FMul(a[3 * r + 2], b[c + 4])),
                 FMul(a[3 * r + 3], b[c + 7]))]

\* arm_mat_trans_f32(pSrc, pDst): writes the transpose through pDst->pData.
arm_mat_trans_f32(mem, pSrc, pDst) ==
    [mem EXCEPT ![pDst.pData] = MatTranspose(mem[pSrc.pData])]

\* Angles whose sine and cosine are rational.
RollPitchAngles == {"0", "pi/2", "atan(3/4)"}
YawAngles == {"0", "-pi/2", "atan(3/4)", "pi"}

arm_sin_f32(x) ==
    CASE x = "0" -> Zero
      [] x = "pi/2" -> One
      [] x = "-pi/2" -> F(-1, 1)
      [] x = "atan(3/4)" -> F(3, 5)
      [] x = "pi" -> Zero
      [] x = "atan(4/3)" -> F(4, 5)
      [] x = "pi-atan(3/4)" -> F(3, 5)
      [] x = "pi-atan(4/3)" -> F(4, 5)
      [] x = "NaN" -> NaN

arm_cos_f32(x) ==
    CASE x = "0" -> One
      [] x = "pi/2" -> Zero
      [] x = "-pi/2" -> Zero
      [] x = "atan(3/4)" -> F(4, 5)
      [] x = "pi" -> F(-1, 1)
      [] x = "atan(4/3)" -> F(3, 5)
      [] x = "pi-atan(3/4)" -> F(-4, 5)
      [] x = "pi-atan(4/3)" -> F(-3, 5)
      [] x = "NaN" -> NaN

\* The initializer of the local DCMUpdate.
DCMUpdate(roll, pitch, yaw) ==
    LET sr == arm_sin_f32(roll)   cr == arm_cos_f32(roll)
        sp == arm_sin_f32(pitch)  cp == arm_cos_f32(pitch)
        sy == arm_sin_f32(yaw)    cy == arm_cos_f32(yaw)
    IN  << FMul(cp, cy), FMul(cp, sy), FNeg(sp),
           FAdd(FMul(FNeg(cr), sy), FMul(FMul(sr, sp), cy)),
           FAdd(FMul(cr, cy), FMul(FMul(sr, sp), sy)),
           FMul(sr, cp),
           FAdd(FMul(sr, sy), FMul(FMul(cr, sp), cy)),
           FAdd(FMul(FNeg(sr), cy), FMul(FMul(cr, sp), sy)),
           FMul(cr, cp) >>

\* UpdateRotationMatrix on the globals and stack contents in st.
UpdateRotationMatrix(st, roll, pitch, yaw) ==
    LET mem == [st.stack EXCEPT !["DCMUpdate"] = DCMUpdate(roll, pitch, yaw)]
        dcm == arm_mat_init_f32(3, 3, "DCMUpdate")
    IN  [DCM |-> dcm, DCMInv |-> st.DCMInv,
         stack |-> arm_mat_trans_f32(mem, dcm, st.DCMInv)]

\* InitRotationMatrix, the UpdateRotationMatrix(0.0, 0.0, 0.0) it ends with included.
InitRotationMatrix(st) ==
    LET mem == [st.stack EXCEPT !["DCMInvInit"] = DCMInvInit]
        inv == arm_mat_init_f32(3, 3, "DCMInvInit")
    IN  UpdateRotationMatrix([DCM |-> st.DCM, DCMInv |-> inv, stack |-> mem],
                             "0", "0", "0")

\* The matrix a reader of the global finds through its pData.
MatrixData(m) == stack[m.pData]

\* What later calls and interrupts may leave in a returned function's frame.
GarbageMatrices == {[i \in 1..9 |-> F(7, 1)]}

Dot3(a, b) == FAdd(FAdd(FMul(a[1], b[1]), FMul(a[2], b[2])), FMul(a[3], b[3]))

\* arm_scale_f32(pSrc, scale, pDst, 3)
arm_scale_f32(src, scale) == [i \in 1..3 |-> FMul(src[i], scale)]

\* Vector3DNormalize: the value left in dstVector.
Vector3DNormalize(src) ==
    LET norm == FSqrt(Dot3(src, src))
    IN  arm_scale_f32(src, FDiv(One, norm))

Vec(x, y, z) == <<F(x, 1), F(y, 1), F(z, 1)>>

TestVectors == {Vec(0, 0, 0), Vec(1, 0, 0), Vec(0, 0, -2), Vec(3, 4, 0),
                Vec(2, -2, 1), Vec(1, 2, 2)}

RotInit ==
    /\ DCM = NullMatrixInstance
    /\ DCMInv = NullMatrixInstance
    /\ stack = [f \in Frames |-> ZeroMatrix]
    /\ rotState = "reset"
    /\ srcVector = Vec(0, 0, 0)
    /\ dstVector = Vec(0, 0, 0)
    /\ normalizeCalled = FALSE

CallInitRotationMatrix ==
    /\ LET st == InitRotationMatrix([DCM |-> DCM, DCMInv |-> DCMInv, stack |-> stack])
       IN  /\ DCM' = st.DCM
           /\ DCMInv' = st.DCMInv
           /\ stack' = st.stack
    /\ rotState' = "initialised"
    /\ UNCHANGED <<srcVector, dstVector, normalizeCalled>>
    /\ UNCHANGED <<buildVars, pidVars, ctrlVars, pipeVars, magVars, estVars, irqVars, motorVars>>

CallUpdateRotationMatrix ==
    /\ rotState # "reset"
    /\ \E roll \in RollPitchAngles, pitch \in RollPitchAngles, yaw \in YawAngles :
          LET st == UpdateRotationMatrix([DCM |-> DCM, DCMInv |-> DCMInv, stack |-> stack],
                                         roll, pitch, yaw)
          IN  /\ DCM' = st.DCM
              /\ DCMInv' = st.DCMInv
              /\ stack' = st.stack
    /\ rotState' = "updated"
    /\ UNCHANGED <<srcVector, dstVector, normalizeCalled>>
    /\ UNCHANGED <<buildVars, pidVars, ctrlVars, pipeVars, magVars, estVars, irqVars, motorVars>>

\* Between two calls the frames of InitRotationMatrix and UpdateRotationMatrix
\* are dead: whatever runs next (a call, an interrupt) reuses their storage.
StackReuse ==
    /\ rotState # "reset"
    /\ \E f \in {DCM.pData, DCMInv.pData}, g \in GarbageMatrices :
          /\ stack[f] # g
          /\ stack' = [stack EXCEPT ![f] = g]
    /\ UNCHANGED <<DCM, DCMInv, rotState, srcVector, dstVector, normalizeCalled>>
    /\ UNCHANGED <<buildVars, pidVars, ctrlVars, pipeVars, magVars, estVars, irqVars, motorVars>>

CallVector3DNormalize ==
    /\ \E v \in TestVectors :
          /\ srcVector' = v
          /\ dstVector' = Vector3DNormalize(v)
    /\ normalizeCalled' = TRUE
    /\ UNCHANGED <<DCM, DCMInv, stack, rotState>>
    /\ UNCHANGED <<buildVars, pidVars, ctrlVars, pipeVars, magVars, estVars, irqVars, motorVars>>

\* Vector3DCrossProduct: the value left in dstVector.
Vector3DCrossProduct(srcVector1, srcVector2) ==
    << FSub(FMul(srcVector1[2], srcVector2[3]), FMul(srcVector1[3], srcVector2[2])),
       FSub(FMul(srcVector1[3], srcVector2[1]), FMul(srcVector1[1], srcVector2[3])),
       FSub(FMul(srcVector1[1], srcVector2[2]), FMul(srcVector1[2], srcVector2[1])) >>

\* acos() of <math.h> on the cosines whose angle has a rational sine.
AcosTable == {<<One, "0">>, <<F(4, 5), "atan(3/4)">>, <<F(3, 5), "atan(4/3)">>,
              <<Zero, "pi/2">>, <<F(-3, 5), "pi-atan(4/3)">>,
              <<F(-4, 5), "pi-atan(3/4)">>, <<F(-1, 1), "pi">>}

AcosDefined(x) == IsNaN(x) \/ \E e \in AcosTable : e[1] = x

acos(x) == IF IsNaN(x) THEN "NaN" ELSE (CHOOSE e \in AcosTable : e[1] = x)[2]

\* An angle returned by atan2() or asin() is the direction <<y, x>> of the
\* point (cos, sin) on the unit circle, in lowest integer terms: <<0, 1>> is
\* 0, <<1, 0>> is pi/2, <<0, -1>> is pi, <<-1, 0>> is -pi/2, <<0, 0>> is NaN.
AngleNaN == <<0, 0>>
AngleZero == <<0, 1>>

\* atan2(y, x) of <math.h>; atan2(0, 0) is 0.
atan2(y, x) ==
    IF IsNaN(y) \/ IsNaN(x) THEN AngleNaN
    ELSE IF ~IsFinite(y) \/ ~IsFinite(x)
         THEN <<(IF IsFinite(y) THEN 0 ELSE y[1]), (IF IsFinite(x) THEN 0 ELSE x[1])>>
    ELSE LET n == y[1] * x[2]
             m == x[1] * y[2]
             g == GCD(Abs(n), Abs(m))
         IN  IF g = 0 THEN AngleZero ELSE <<n \div g, m \div g>>

\* asin(v) of <math.h>: NaN outside [-1, 1].  The angle it returns lies in
\* [-pi/2, pi/2], where the sine determines the angle: it is represented by
\* its sine, which need not have a rational cosine.
asin(v) ==
    IF IsNaN(v) \/ FGt(v, One) \/ FLt(v, F(-1, 1)) THEN NaN ELSE v

\* The values atan2() and asin() return for the angle named x.
AngleOf(x) == atan2(arm_sin_f32(x), arm_cos_f32(x))
AsinOf(x) == asin(arm_sin_f32(x))

\* GetAttitudeFromMagnetometer: the three values left in dstAttitude.
GetAttitudeFromMagnetometer(bodyReadings, inertialVector) ==
    LET bodyMagneticNormalized == Vector3DNormalize(bodyReadings)
        inertialMagneticNormalized == Vector3DNormalize(inertialVector)
        rotationAxisVector == Vector3DCrossProduct(bodyMagneticNormalized,
                                                   inertialMagneticNormalized)
        dotProd == Dot3(bodyMagneticNormalized, inertialMagneticNormalized)
        rotationAngle == acos(dotProd)
        cosAngle == arm_cos_f32(rotationAngle)
        sinAngle == arm_sin_f32(rotationAngle)
        oneMinusCos == FSub(One, cosAngle)
        r11 == FAdd(cosAngle, FMul(FMul(rotationAxisVector[1], rotationAxisVector[1]),
                                   oneMinusCos))
        r12 == FSub(FMul(FMul(rotationAxisVector[1], rotationAxisVector[2]), oneMinusCos),
                    FMul(rotationAxisVector[3], sinAngle))
        r13 == FAdd(FMul(FMul(rotationAxisVector[1], rotationAxisVector[3]), oneMinusCos),
                    FMul(rotationAxisVector[2], sinAngle))
        r23 == FSub(FMul(FMul(rotationAxisVector[2], rotationAxisVector[3]), oneMinusCos),
                    FMul(rotationAxisVector[1], sinAngle))
        r33 == FAdd(cosAngle, FMul(FMul(rotationAxisVector[3], rotationAxisVector[3]),
                                   oneMinusCos))
    IN  <<atan2(r23, r33), asin(FNeg(r13)), atan2(r12, r11)>>

\* The product of a 3x3 matrix and a vector.
MatVec(m, v) ==
    [i \in 1..3 |-> FAdd(FAdd(FMul(m[3 * i - 2], v[1]), FMul(m[3 * i - 1], v[2])),
                         FMul(m[3 * i], v[3]))]

\* Inertial-frame magnetic vectors, and the scalings of them used as body
\* readings parallel to the reference.
MagInertialVectors == {Vec(1, 0, 0), Vec(0, 1, 0), Vec(0, 0, -2), Vec(3, 4, 0)}
ParallelFactors == {F(1, 1), F(2, 1), F(-1, 1)}

\* The attitudes a body reading is made with: at most one of the three angles
\* is not a multiple of pi/2.
MagAngleTriples ==
    {a \in RollPitchAngles \X RollPitchAngles \X YawAngles :
        Cardinality({i \in 1..3 : a[i] = "atan(3/4)"}) <= 1}

\* The rotation angle of a call has a rational sine.
MagRepresentable(bodyReadings, inertialVector) ==
    AcosDefined(Dot3(Vector3DNormalize(bodyReadings), Vector3DNormalize(inertialVector)))

MagInit ==
    /\ bodyMagneticReadings = Vec(0, 0, 0)
    /\ inertialMagneticVector = Vec(0, 0, 0)
    /\ dstAttitude = <<AngleZero, Zero, AngleZero>>
    /\ magAngles = <<>>
    /\ magCalls = 0

MagCall(bodyReadings, inertialVector, angles) ==
    /\ magCalls < MaxMagCalls
    /\ MagRepresentable(bodyReadings, inertialVector)
    /\ bodyMagneticReadings' = bodyReadings
    /\ inertialMagneticVector' = inertialVector
    /\ dstAttitude' = GetAttitudeFromMagnetometer(bodyReadings, inertialVector)
    /\ magAngles' = angles
    /\ magCalls' = magCalls + 1
    /\ UNCHANGED <<buildVars, pidVars, ctrlVars, rotVars, pipeVars, estVars, irqVars, motorVars>>

\* A call with the body reading a multiple of the inertial reference.
CallGetAttitude_Parallel ==
    \E m \in MagInertialVectors, k \in ParallelFactors :
        MagCall(arm_scale_f32(m, k), m, <<>>)

\* A call with the body reading made by rotating the inertial reference with
\* the matrix UpdateRotationMatrix builds for (roll, pitch, yaw).
CallGetAttitude_Rotated ==
    \E m \in MagInertialVectors, a \in MagAngleTriples :
        MagCall(MatVec(DCMUpdate(a[1], a[2], a[3]), m), m, a)

(***************************************************************************)
(* fcb_sensors.h and main.c: the sensor event pipeline.  fcb_sensors.c is  *)
(* not part of the sources: the queue and the tFcbSensors thread follow    *)
(* the design description and the header's comments.                       *)
(***************************************************************************)
\* A queue created one element too long.
QueueSize_OneTooMany == 3 + 1

FCB_SENSORS_QUEUE_SIZE == 3

FCB_SENSOR_GYRO_DATA_READY == 10
FCB_SENSOR_GYRO_CALIBRATE == 11
FCB_SENSOR_MAGNETO_ACC_DATA_READY == 26
FCB_SENSOR_MAGNETO_ACC_CALIBRATE == 27

FcbSensorMessage == {FCB_SENSOR_GYRO_DATA_READY, FCB_SENSOR_GYRO_CALIBRATE,
                     FCB_SENSOR_MAGNETO_ACC_DATA_READY, FCB_SENSOR_MAGNETO_ACC_CALIBRATE}

GPIOPins == {"USER_BUTTON_PIN", "GPIO_GYRO_DRDY", "GPIO_PIN_OTHER"}

\* The queue after a post from interrupt context: a full queue drops the tag.
FcbSendSensorMessageFromISR(q, msg) ==
    IF Len(q) < FCB_SENSORS_QUEUE_SIZE THEN Append(q, msg) ELSE q

\* A post and the histories that record it.
PostFromISR(msg) ==
    /\ Len(posted) < MaxPosts
    /\ qFcbSensors' = FcbSendSensorMessageFromISR(qFcbSensors, msg)
    /\ posted' = Append(posted, msg)
    /\ accepted' = IF qFcbSensors' # qFcbSensors THEN Append(accepted, msg) ELSE accepted

PipeInit ==
    /\ qFcbSensors = <<>>
    /\ processing = <<>>
    /\ posted = <<>>
    /\ accepted = <<>>
    /\ dispatched = <<>>
    /\ UserButtonPressed = 0
    /\ led7 = FALSE

\* A callback that posts the gyro tag whatever pin raised the interrupt.
EXTI_Callback_PostOnAnyPin(GPIO_Pin) ==
    /\ PostFromISR(FCB_SENSOR_GYRO_DATA_READY)
    /\ UNCHANGED <<UserButtonPressed, led7>>

\* The body of HAL_GPIO_EXTI_Callback(GPIO_Pin).
EXTI_Callback(GPIO_Pin) ==
    IF GPIO_Pin = "USER_BUTTON_PIN"
    THEN LET n == (UserButtonPressed + 1) % 256
         IN  /\ UserButtonPressed' = IF n > 7 THEN 0 ELSE n
             /\ led7' = IF n > 7 THEN ~led7 ELSE led7
             /\ UNCHANGED <<qFcbSensors, posted, accepted>>
    ELSE IF GPIO_Pin = "GPIO_GYRO_DRDY"
    THEN /\ PostFromISR(FCB_SENSOR_GYRO_DATA_READY)
         /\ UNCHANGED <<UserButtonPressed, led7>>
    ELSE UNCHANGED <<qFcbSensors, posted, accepted, UserButtonPressed, led7>>

HAL_GPIO_EXTI_Callback ==
    /\ \E GPIO_Pin \in GPIOPins : EXTI_Callback(GPIO_Pin)
    /\ UNCHANGED <<processing, dispatched>>
    /\ UNCHANGED <<buildVars, pidVars, ctrlVars, rotVars, magVars, estVars, irqVars, motorVars>>

\* The interrupt handlers of the other sensor events.
OtherSensorISR ==
    /\ \E msg \in FcbSensorMessage \ {FCB_SENSOR_GYRO_DATA_READY} : PostFromISR(msg)
    /\ UNCHANGED <<processing, dispatched, UserButtonPressed, led7>>
    /\ UNCHANGED <<buildVars, pidVars, ctrlVars, rotVars, magVars, estVars, irqVars, motorVars>>

\* A receive that does not wait for the dispatch in progress.
SensorsTaskReceive_WhileDispatching ==
    /\ qFcbSensors # <<>>
    /\ processing' = Append(processing, Head(qFcbSensors))
    /\ qFcbSensors' = Tail(qFcbSensors)
    /\ UNCHANGED <<posted, accepted, dispatched, UserButtonPressed, led7>>
    /\ UNCHANGED <<buildVars, pidVars, ctrlVars, rotVars, magVars, estVars, irqVars, motorVars>>

\* tFcbSensors, pended on the queue, takes the oldest tag.
SensorsTaskReceive ==
    /\ processing = <<>>
    /\ qFcbSensors # <<>>
    /\ processing' = <<Head(qFcbSensors)>>
    /\ qFcbSensors' = Tail(qFcbSensors)
    /\ UNCHANGED <<posted, accepted, dispatched, UserButtonPressed, led7>>
    /\ UNCHANGED <<buildVars, pidVars, ctrlVars, rotVars, magVars, estVars, irqVars, motorVars>>

\* tFcbSensors finishes the fetch-and-update of the tag it took.
SensorsTaskDispatchDone ==
    /\ processing # <<>>
    /\ dispatched' = Append(dispatched, Head(processing))
    /\ processing' = Tail(processing)
    /\ UNCHANGED <<qFcbSensors, posted, accepted, UserButtonPressed, led7>>
    /\ UNCHANGED <<buildVars, pidVars, ctrlVars, rotVars, magVars, estVars, irqVars, motorVars>>

(***************************************************************************)
(* state_estimation.h and pid_control.c: the control task reading the      *)
(* fused angles while the sensor task updates them.  state_estimation.c is *)
(* not part of the sources: the filter follows the design description,     *)
(* with PredictStatesXYZ and CorrectStatesXYZ each indivisible and the     *)
(* error covariance, which no accessor returns, left out.                  *)
(***************************************************************************)
Axes == {"roll", "pitch", "yaw"}

STATE_ESTIMATION_SAMPLE_PERIOD == CONTROL_PERIOD

\* Stand-ins for the gyro rate, the measured angle and the Kalman gains.
GyroRates == {F(2, 1)}
MeasuredAngles == {Zero}
KalmanGain1 == F(1, 2)
KalmanGain2 == Zero

\* InitStatesXYZ
InitStatesXYZ == [a \in Axes |-> [angle |-> Zero, angleRateBias |-> Zero]]

\* angle += (gyroRate - angleRateBias) * dt
PredictState(st, sensorRate) ==
    [st EXCEPT !.angle = FAdd(st.angle, FMul(FSub(sensorRate, st.angleRateBias),
                                             STATE_ESTIMATION_SAMPLE_PERIOD))]

\* angle and angleRateBias move by their gain times the innovation.
CorrectState(st, sensorAngle) ==
    LET innovation == FSub(sensorAngle, st.angle)
    IN  [angle |-> FAdd(st.angle, FMul(KalmanGain1, innovation)),
         angleRateBias |-> FAdd(st.angleRateBias, FMul(KalmanGain2, innovation))]

GetRollAngle == estimate["roll"].angle
GetPitchAngle == estimate["pitch"].angle
GetYawAngle == estimate["yaw"].angle

NoRead == <<-1, "none">>

EstInit ==
    /\ estimate = InitStatesXYZ
    /\ estCycle = 0
    /\ estPhase = "corrected"
    /\ ctrlPc = "RollMoment"
    /\ angleRead = [a \in Axes |-> NoRead]

\* The control task after InitPIDControllers.
CtrlReady ==
    /\ AltCtrl = InitAltCtrl
    /\ RollCtrl = InitRollCtrl
    /\ PitchCtrl = InitPitchCtrl
    /\ YawCtrl = InitYawCtrl
    /\ pidInitDone = TRUE
    /\ written = {}
    /\ lastPeriod = NoPeriod
    /\ periods = 0
    /\ ctrlSignals = [f \in CtrlSignalFields |-> Zero]

\* The sensor task: the first half of a cycle.
PredictStatesXYZ ==
    /\ estPhase = "corrected"
    /\ estCycle < MaxCycles
    /\ \E rate \in GyroRates :
          estimate' = [a \in Axes |-> PredictState(estimate[a], rate)]
    /\ estCycle' = estCycle + 1
    /\ estPhase' = "predicted"
    /\ UNCHANGED <<ctrlPc, angleRead>>
    /\ UNCHANGED <<buildVars, pidVars, ctrlVars, rotVars, pipeVars, magVars, irqVars, motorVars>>

\* The sensor task: the second half of a cycle.
CorrectStatesXYZ ==
    /\ estPhase = "predicted"
    /\ \E m \in MeasuredAngles :
          estimate' = [a \in Axes |-> CorrectState(estimate[a], m)]
    /\ estPhase' = "corrected"
    /\ UNCHANGED <<estCycle, ctrlPc, angleRead>>
    /\ UNCHANGED <<buildVars, pidVars, ctrlVars, rotVars, pipeVars, magVars, irqVars, motorVars>>

\* UpdatePIDControlSignals, one statement at a time: the sensor task may run
\* between any two of them.
ControlTask_RollMoment ==
    /\ ctrlPc = "RollMoment"
    /\ periods < MaxPeriods
    /\ LET r == UpdatePIDControl(pidForm, RollCtrl, GetRollAngle, Zero)
       IN  /\ RollCtrl' = r.ctrl
           /\ ctrlSignals' = [ctrlSignals EXCEPT !.RollMoment = r.ret]
           /\ lastPeriod' = [lastPeriod EXCEPT !.RollMoment = <<RollCtrl, GetRollAngle, Zero>>]
    /\ written' = {"RollMoment"}
    /\ angleRead' = [angleRead EXCEPT !["roll"] = <<estCycle, estPhase>>]
    /\ ctrlPc' = "PitchMoment"
    /\ UNCHANGED <<AltCtrl, PitchCtrl, YawCtrl, pidInitDone, periods>>
    /\ UNCHANGED <<estimate, estCycle, estPhase>>
    /\ UNCHANGED <<buildVars, pidVars, rotVars, pipeVars, magVars, irqVars, motorVars>>

ControlTask_PitchMoment ==
    /\ ctrlPc = "PitchMoment"
    /\ LET r == UpdatePIDControl(pidForm, PitchCtrl, GetPitchAngle, Zero)
       IN  /\ PitchCtrl' = r.ctrl
           /\ ctrlSignals' = [ctrlSignals EXCEPT !.PitchMoment = r.ret]
           /\ lastPeriod' = [lastPeriod EXCEPT !.PitchMoment = <<PitchCtrl, GetPitchAngle, Zero>>]
    /\ written' = written \cup {"PitchMoment"}
    /\ angleRead' = [angleRead EXCEPT !["pitch"] = <<estCycle, estPhase>>]
    /\ ctrlPc' = "YawMoment"
    /\ UNCHANGED <<AltCtrl, RollCtrl, YawCtrl, pidInitDone, periods>>
    /\ UNCHANGED <<estimate, estCycle, estPhase>>
    /\ UNCHANGED <<buildVars, pidVars, rotVars, pipeVars, magVars, irqVars, motorVars>>

ControlTask_YawMoment ==
    /\ ctrlPc = "YawMoment"
    /\ LET r == UpdatePIDControl(pidForm, YawCtrl, GetYawAngle, Zero)
       IN  /\ YawCtrl' = r.ctrl
           /\ ctrlSignals' = [ctrlSignals EXCEPT !.YawMoment = r.ret]
           /\ lastPeriod' = [lastPeriod EXCEPT !.YawMoment = <<YawCtrl, GetYawAngle, Zero>>]
    /\ written' = written \cup {"YawMoment"}
    /\ angleRead' = [angleRead EXCEPT !["yaw"] = <<estCycle, estPhase>>]
    /\ ctrlPc' = "RollMoment"
    /\ periods' = periods + 1
    /\ UNCHANGED <<AltCtrl, RollCtrl, PitchCtrl, pidInitDone>>
    /\ UNCHANGED <<estimate, estCycle, estPhase>>
    /\ UNCHANGED <<buildVars, pidVars, rotVars, pipeVars, magVars, irqVars, motorVars>>

(***************************************************************************)
(* main.c: the interrupt callbacks, run against the scheduler being        *)
(* started and the sensor task updating the estimator.  receiver.c and     *)
(* ErrorHandler are not part of the sources: a call of one of their        *)
(* routines is recorded, its effect on their own state is not modelled.    *)
(***************************************************************************)
SchedulerStates == {"taskSCHEDULER_NOT_STARTED", "taskSCHEDULER_RUNNING",
                    "taskSCHEDULER_SUSPENDED"}

TimInstances == {"PRIMARY_RECEIVER_TIM", "AUX_RECEIVER_TIM", "TIM_OTHER"}

TimChannels == {"HAL_TIM_ACTIVE_CHANNEL_1", "HAL_TIM_ACTIVE_CHANNEL_2",
                "HAL_TIM_ACTIVE_CHANNEL_3", "HAL_TIM_ACTIVE_CHANNEL_4"}

IrqInit ==
    /\ uwTick = 0
    /\ kicks = 0
    /\ led9 = FALSE
    /\ schedulerState = "taskSCHEDULER_NOT_STARTED"
    /\ rtosTickCalls = 0
    /\ receiverUpdate = "none"
    /\ errorHandlerCalled = FALSE
    /\ irqCount = 0
    /\ lastIrq = <<"none", "none">>
    /\ sysTickIrqs = 0
    /\ uwTickAtStart = 0

\* An interrupt callback is entered: the histories that record it.
IrqEntry(callback, arg) ==
    /\ irqCount < MaxIrqs
    /\ irqCount' = irqCount + 1
    /\ lastIrq' = <<callback, arg>>

\* HAL_GPIO_EXTI_Callback run as one of the interrupts.
Irq_GPIO_EXTI ==
    /\ \E GPIO_Pin \in GPIOPins :
          /\ IrqEntry("HAL_GPIO_EXTI_Callback", GPIO_Pin)
          /\ EXTI_Callback(GPIO_Pin)
    /\ UNCHANGED <<processing, dispatched>>
    /\ UNCHANGED <<uwTick, kicks, led9, schedulerState, rtosTickCalls, receiverUpdate,
                   errorHandlerCalled, sysTickIrqs, uwTickAtStart>>
    /\ UNCHANGED <<buildVars, pidVars, ctrlVars, rotVars, magVars, estVars, motorVars>>

HAL_PWR_PVDCallback ==
    /\ IrqEntry("HAL_PWR_PVDCallback", "none")
    /\ errorHandlerCalled' = TRUE
    /\ UNCHANGED <<uwTick, kicks, led9, schedulerState, rtosTickCalls, receiverUpdate,
                   sysTickIrqs, uwTickAtStart>>
    /\ UNCHANGED <<buildVars, pidVars, ctrlVars, rotVars, pipeVars, magVars, estVars, motorVars>>

\* A callback that drives the RTOS tick whatever the scheduler state.
HAL_SYSTICK_Callback_NoStateTest ==
    /\ IrqEntry("HAL_SYSTICK_Callback", "none")
    /\ kicks' = kicks + 1
    /\ led9' = IF kicks' % 1000 = 0 THEN ~led9 ELSE led9
    /\ uwTick' = uwTick + 1
    /\ rtosTickCalls' = rtosTickCalls + 1
    /\ sysTickIrqs' = sysTickIrqs + 1
    /\ UNCHANGED <<schedulerState, receiverUpdate, errorHandlerCalled, uwTickAtStart>>
    /\ UNCHANGED <<buildVars, pidVars, ctrlVars, rotVars, pipeVars, magVars, estVars, motorVars>>

HAL_SYSTICK_Callback ==
    /\ IrqEntry("HAL_SYSTICK_Callback", "none")
    /\ kicks' = kicks + 1
    /\ led9' = IF kicks' % 1000 = 0 THEN ~led9 ELSE led9
    /\ uwTick' = uwTick + 1
    /\ rtosTickCalls' = IF schedulerState # "taskSCHEDULER_NOT_STARTED"
                        THEN rtosTickCalls + 1 ELSE rtosTickCalls
    /\ sysTickIrqs' = sysTickIrqs + 1
    /\ UNCHANGED <<schedulerState, receiverUpdate, errorHandlerCalled, uwTickAtStart>>
    /\ UNCHANGED <<buildVars, pidVars, ctrlVars, rotVars, pipeVars, magVars, estVars, motorVars>>

HAL_TIM_PeriodElapsedCallback ==
    /\ \E Instance \in TimInstances :
          /\ IrqEntry("HAL_TIM_PeriodElapsedCallback", Instance)
          /\ receiverUpdate' =
                IF Instance = "PRIMARY_RECEIVER_TIM"
                THEN "PrimaryReceiverTimerPeriodCountIncrement"
                ELSE IF Instance = "AUX_RECEIVER_TIM"
                THEN "AuxReceiverTimerPeriodCountIncrement"
                ELSE receiverUpdate
    /\ UNCHANGED <<uwTick, kicks, led9, schedulerState, rtosTickCalls,
                   errorHandlerCalled, sysTickIrqs, uwTickAtStart>>
    /\ UNCHANGED <<buildVars, pidVars, ctrlVars, rotVars, pipeVars, magVars, estVars, motorVars>>

\* The active channels the receiver assigns to its inputs (receiver.h is not
\* part of the sources).
PrimaryChannelRoutine(Channel) ==
    CASE Channel = "HAL_TIM_ACTIVE_CHANNEL_1" -> "UpdateReceiverThrottleChannel"
      [] Channel = "HAL_TIM_ACTIVE_CHANNEL_2" -> "UpdateReceiverAileronChannel"
      [] Channel = "HAL_TIM_ACTIVE_CHANNEL_3" -> "UpdateReceiverElevatorChannel"
      [] Channel = "HAL_TIM_ACTIVE_CHANNEL_4" -> "UpdateReceiverRudderChannel"

AuxChannelRoutine(Channel) ==
    CASE Channel = "HAL_TIM_ACTIVE_CHANNEL_1" -> "UpdateReceiverGearChannel"
      [] Channel = "HAL_TIM_ACTIVE_CHANNEL_2" -> "UpdateReceiverAux1Channel"
      [] OTHER -> "none"

HAL_TIM_IC_CaptureCallback ==
    /\ \E Instance \in TimInstances, Channel \in TimChannels :
          /\ IrqEntry("HAL_TIM_IC_CaptureCallback", Instance)
          /\ LET routine == IF Instance = "PRIMARY_RECEIVER_TIM"
                            THEN PrimaryChannelRoutine(Channel)
                            ELSE IF Instance = "AUX_RECEIVER_TIM"
                            THEN AuxChannelRoutine(Channel)
                            ELSE "none"
             IN  receiverUpdate' = IF routine = "none" THEN receiverUpdate ELSE routine
    /\ UNCHANGED <<uwTick, kicks, led9, schedulerState, rtosTickCalls,
                   errorHandlerCalled, sysTickIrqs, uwTickAtStart>>
    /\ UNCHANGED <<buildVars, pidVars, ctrlVars, rotVars, pipeVars, magVars, estVars, motorVars>>

\* vTaskStartScheduler, then vTaskSuspendAll and xTaskResumeAll of the tasks.
SchedulerChange ==
    /\ \E st \in SchedulerStates \ {"taskSCHEDULER_NOT_STARTED", schedulerState} :
          schedulerState' = st
    /\ uwTickAtStart' = IF schedulerState = "taskSCHEDULER_NOT_STARTED"
                        THEN uwTick ELSE uwTickAtStart
    /\ UNCHANGED <<uwTick, kicks, led9, rtosTickCalls, receiverUpdate,
                   errorHandlerCalled, irqCount, lastIrq, sysTickIrqs>>
    /\ UNCHANGED <<buildVars, pidVars, ctrlVars, rotVars, pipeVars, magVars, estVars, motorVars>>

(***************************************************************************)
(* motor_control.c: the print sampling task.  A task handle is the number  *)
(* of the task it refers to, NULL is 0.  vTaskDelete of the calling task   *)
(* does not return to the caller; vTaskDelete of another task returns.     *)
(***************************************************************************)
NULL == 0

TaskIds == 1..MaxStarts

\* FreeRTOSConfig.h is not part of the sources: one tick per millisecond.
configTICK_RATE_HZ == 1000

\* The ticks that pass between two steps of the model.
TickStep == 500

\* Arguments of StartMotorControlSamplingTask: sampleTime in ticks (uint16_t),
\* sampleDuration in seconds (uint32_t).
SampleTimes == {500, 1000}
SampleDurations == {1, 2, 65537}

Uint16(x) == x % 65536

NoTask == [state |-> "none", xLastWakeTime |-> 0, xSampleStartTime |-> 0]
NoLog == [sampleDuration |-> 0, deletions |-> 0, lastWakeTick |-> -1, deletedAt |-> -1]
NoStop == [caller |-> "none", handleBefore |-> NULL, deleted |-> NULL,
           handleAfter |-> NULL, ret |-> "none"]

MotorInit ==
    /\ MotorControlPrintSamplingTaskHandle = NULL
    /\ motorControlPrintSampleTime = 0
    /\ motorControlPrintSampleDuration = 0
    /\ xTickCount = 0
    /\ tasks = [id \in TaskIds |-> NoTask]
    /\ taskLog = [id \in TaskIds |-> NoLog]
    /\ lastStop = NoStop

\* Tasks created and not deleted.
AliveTasks == {id \in TaskIds : tasks[id].state \in {"ready", "delaying"}}

\* vTaskDelete(handle): the task table and the log after the call.
vTaskDelete(tk, handle) == [tk EXCEPT ![handle].state = "deleted"]
LogDelete(lg, handle) == [lg EXCEPT ![handle].deletions = @ + 1]

StartMotorControlSamplingTask ==
    /\ \E id \in TaskIds, sampleTime \in SampleTimes, sampleDuration \in SampleDurations :
          /\ tasks[id].state = "none"
          /\ \A j \in TaskIds : j < id => tasks[j].state # "none"
          /\ motorControlPrintSampleTime' = sampleTime
          /\ motorControlPrintSampleDuration' = Uint16(sampleDuration)
          /\ tasks' = [tasks EXCEPT ![id].state = "ready"]
          /\ taskLog' = [taskLog EXCEPT ![id].sampleDuration = sampleDuration]
          /\ MotorControlPrintSamplingTaskHandle' = id
    /\ UNCHANGED <<xTickCount, lastStop>>
    /\ UNCHANGED <<buildVars, pidVars, ctrlVars, rotVars, pipeVars, magVars, estVars, irqVars>>

\* StopMotorControlSamplingTask called by a task other than the sampling task.
StopMotorControlSamplingTask ==
    /\ IF MotorControlPrintSamplingTaskHandle # NULL
       THEN /\ tasks' = vTaskDelete(tasks, MotorControlPrintSamplingTaskHandle)
            /\ taskLog' = LogDelete(taskLog, MotorControlPrintSamplingTaskHandle)
            /\ MotorControlPrintSamplingTaskHandle' = NULL
            /\ lastStop' = [caller |-> "other",
                            handleBefore |-> MotorControlPrintSamplingTaskHandle,
                            deleted |-> MotorControlPrintSamplingTaskHandle,
                            handleAfter |-> NULL, ret |-> "MOTORCTRL_OK"]
       ELSE /\ lastStop' = [caller |-> "other", handleBefore |-> NULL, deleted |-> NULL,
                            handleAfter |-> NULL, ret |-> "MOTORCTRL_ERROR"]
            /\ lastStop' # lastStop
            /\ UNCHANGED <<tasks, taskLog, MotorControlPrintSamplingTaskHandle>>
    /\ UNCHANGED <<motorControlPrintSampleTime, motorControlPrintSampleDuration, xTickCount>>
    /\ UNCHANGED <<buildVars, pidVars, ctrlVars, rotVars, pipeVars, magVars, estVars, irqVars>>

\* MotorControlPrintSamplingTask up to its first vTaskDelayUntil.
SamplingTaskBegin ==
    /\ \E id \in TaskIds :
          /\ tasks[id].state = "ready"
          /\ tasks' = [tasks EXCEPT ![id] = [state |-> "delaying",
                                             xLastWakeTime |-> xTickCount,
                                             xSampleStartTime |-> xTickCount]]
    /\ UNCHANGED <<MotorControlPrintSamplingTaskHandle, motorControlPrintSampleTime,
                   motorControlPrintSampleDuration, xTickCount, taskLog, lastStop>>
    /\ UNCHANGED <<buildVars, pidVars, ctrlVars, rotVars, pipeVars, magVars, estVars, irqVars>>

\* One round of the task's loop: vTaskDelayUntil returns, the values are
\* printed, and the expiry check calls StopMotorControlSamplingTask.
SamplingTaskWake ==
    /\ \E id \in TaskIds :
          LET wake == tasks[id].xLastWakeTime + motorControlPrintSampleTime
              expired == xTickCount >= tasks[id].xSampleStartTime
                                       + motorControlPrintSampleDuration * configTICK_RATE_HZ
              handle == MotorControlPrintSamplingTaskHandle
              woken == [tasks EXCEPT ![id].xLastWakeTime = wake]
              logged == [taskLog EXCEPT ![id].lastWakeTick = xTickCount]
          IN  /\ tasks[id].state = "delaying"
              /\ xTickCount >= wake
              /\ IF ~expired
                 THEN /\ tasks' = woken
                      /\ taskLog' = logged
                      /\ UNCHANGED <<MotorControlPrintSamplingTaskHandle, lastStop>>
                 ELSE IF handle = NULL
                 THEN /\ tasks' = woken
                      /\ taskLog' = logged
                      /\ lastStop' = [caller |-> "sampling task", handleBefore |-> NULL,
                                      deleted |-> NULL, handleAfter |-> NULL,
                                      ret |-> "MOTORCTRL_ERROR"]
                      /\ UNCHANGED MotorControlPrintSamplingTaskHandle
                 ELSE IF handle = id
                 THEN /\ tasks' = vTaskDelete(woken, id)
                      /\ taskLog' = [LogDelete(logged, id) EXCEPT ![id].deletedAt = xTickCount]
                      /\ lastStop' = [caller |-> "sampling task", handleBefore |-> id,
                                      deleted |-> id, handleAfter |-> id,
                                      ret |-> "no return"]
                      /\ UNCHANGED MotorControlPrintSamplingTaskHandle
                 ELSE /\ tasks' = vTaskDelete(woken, handle)
                      /\ taskLog' = LogDelete(logged, handle)
                      /\ MotorControlPrintSamplingTaskHandle' = NULL
                      /\ lastStop' = [caller |-> "sampling task", handleBefore |-> handle,
                                      deleted |-> handle, handleAfter |-> NULL,
                                      ret |-> "MOTORCTRL_OK"]
    /\ UNCHANGED <<motorControlPrintSampleTime, motorControlPrintSampleDuration, xTickCount>>
    /\ UNCHANGED <<buildVars, pidVars, ctrlVars, rotVars, pipeVars, magVars, estVars, irqVars>>

\* The RTOS tick count advances.
TickAdvance ==
    /\ xTickCount + TickStep <= MaxTick
    /\ xTickCount' = xTickCount + TickStep
    /\ UNCHANGED <<MotorControlPrintSamplingTaskHandle, motorControlPrintSampleTime,
                   motorControlPrintSampleDuration, tasks, taskLog, lastStop>>
    /\ UNCHANGED <<buildVars, pidVars, ctrlVars, rotVars, pipeVars, magVars, estVars, irqVars>>

(***************************************************************************)
(* Specifications                                                          *)
(***************************************************************************)
\* The sensor event pipeline: interrupts against the tFcbSensors thread.
Init == BuildFixed /\ PIDIdle /\ CtrlIdle /\ RotInit /\ PipeInit /\ MagInit /\ EstInit
    /\ IrqInit /\ MotorInit

Next ==
    \/ HAL_GPIO_EXTI_Callback
    \/ OtherSensorISR
    \/ SensorsTaskReceive
    \/ SensorsTaskDispatchDone

Spec == Init /\ [][Next]_vars

\* One PID controller drawn from TestControllers, updated MaxCalls times.
InitPID == BuildAny /\ PIDInit /\ CtrlIdle /\ RotInit /\ PipeInit /\ MagInit /\ EstInit
    /\ IrqInit /\ MotorInit

NextPID == CallUpdatePIDControl

SpecPID == InitPID /\ [][NextPID]_vars

\* The control task: InitPIDControllers, then UpdatePIDControlSignals per period.
InitCtrl == BuildAny /\ PIDIdle /\ CtrlInit /\ RotInit /\ PipeInit /\ MagInit /\ EstInit
    /\ IrqInit /\ MotorInit

NextCtrl ==
    \/ InitPIDControllers
    \/ UpdatePIDControlSignals

SpecCtrl == InitCtrl /\ [][NextCtrl]_vars

\* The rotation transformation.
InitRot == BuildFixed /\ PIDIdle /\ CtrlIdle /\ RotInit /\ PipeInit /\ MagInit /\ EstInit
    /\ IrqInit /\ MotorInit

NextRot ==
    \/ CallInitRotationMatrix
    \/ CallUpdateRotationMatrix
    \/ StackReuse
    \/ CallVector3DNormalize

SpecRot == InitRot /\ [][NextRot]_vars

\* The control task preempted by the sensor task.
InitSched == BuildAny /\ PIDIdle /\ CtrlReady /\ RotInit /\ PipeInit /\ MagInit /\ EstInit
    /\ IrqInit /\ MotorInit

NextSched ==
    \/ PredictStatesXYZ
    \/ CorrectStatesXYZ
    \/ ControlTask_RollMoment
    \/ ControlTask_PitchMoment
    \/ ControlTask_YawMoment

SpecSched == InitSched /\ [][NextSched]_vars

\* The interrupt callbacks of main.c.
InitIrq == BuildFixed /\ PIDIdle /\ CtrlIdle /\ RotInit /\ PipeInit /\ MagInit /\ EstInit
    /\ IrqInit /\ MotorInit

NextIrq ==
    \/ Irq_GPIO_EXTI
    \/ HAL_PWR_PVDCallback
    \/ HAL_SYSTICK_Callback
    \/ HAL_TIM_PeriodElapsedCallback
    \/ HAL_TIM_IC_CaptureCallback
    \/ SchedulerChange
    \/ PredictStatesXYZ
    \/ CorrectStatesXYZ

SpecIrq == InitIrq /\ [][NextIrq]_vars

\* The print sampling task of motor_control.c.
InitMotor == BuildFixed /\ PIDIdle /\ CtrlIdle /\ RotInit /\ PipeInit /\ MagInit /\ EstInit
    /\ IrqInit /\ MotorInit

NextMotor ==
    \/ StartMotorControlSamplingTask
    \/ StopMotorControlSamplingTask
    \/ SamplingTaskBegin
    \/ SamplingTaskWake
    \/ TickAdvance

SpecMotor == InitMotor /\ [][NextMotor]_vars

\* The magnetometer attitude recovery.
InitMag == BuildFixed /\ PIDIdle /\ CtrlIdle /\ RotInit /\ PipeInit /\ MagInit /\ EstInit
    /\ IrqInit /\ MotorInit

NextMag ==
    \/ CallGetAttitude_Parallel
    \/ CallGetAttitude_Rotated

SpecMag == InitMag /\ [][NextMag]_vars

(***************************************************************************)
(* Properties                                                              *)
(***************************************************************************)

\* C1: the sensor queue never holds more than 3 tags; a post to a full queue
\* drops the tag, so after 4 posts with nothing taken by the consumer exactly
\* one tag was dropped and the queue holds exactly the first 3 posted tags.
C1_QueueBackpressure ==
    /\ Len(qFcbSensors) <= 3
    /\ (Len(posted) = 4 /\ processing = <<>> /\ dispatched = <<>>) =>
          /\ Len(posted) - Len(accepted) = 1
          /\ qFcbSensors = SubSeq(posted, 1, 3)

C1_Witness ==
    /\ Len(posted) = 4
    /\ processing = <<>>
    /\ dispatched = <<>>
    /\ Len(qFcbSensors) = 3
    /\ posted[4] # posted[3]

\* C2: the accepted tags are dispatched one at a time in posting order: at
\* most one tag is being processed, and the accepted tags are exactly the
\* dispatched ones, then the one in process, then the queued ones, in order.
C2_InOrderSingleConsumer ==
    /\ Len(processing) <= 1
    /\ accepted = dispatched \o processing \o qFcbSensors

C2_Witness ==
    /\ Len(dispatched) = 1
    /\ Len(processing) = 1
    /\ dispatched[1] # processing[1]
    /\ qFcbSensors # <<>>
    /\ Len(posted) > Len(accepted)

C4_BackCalculationPullsBack ==
    (ctrl.useIntegralAction /\ Len(inputs) > 0) =>
        /\ FGt(tmpControlSignal, ctrl.upperSatLimit) => FLt(ctrl.I, IBeforeBackCalc)
        /\ FLt(tmpControlSignal, ctrl.lowerSatLimit) => FGt(ctrl.I, IBeforeBackCalc)
        /\ (FLe(ctrl.lowerSatLimit, tmpControlSignal)
              /\ FLe(tmpControlSignal, ctrl.upperSatLimit)) => ctrl.I = IBeforeBackCalc

\* C5: a controller with useIntegralAction = false keeps I at its initial
\* value 0 after any sequence of updates, in whichever PID form is compiled.
C5_NoIntegralWithoutFlag ==
    ~ctrl.useIntegralAction => ctrl.I = Zero

\* Every call so far was made with the same state and reference, and
\* state == Beta*reference.
AtEquilibrium ==
    /\ Len(inputs) > 0
    /\ \A i \in 1..Len(inputs) : inputs[i] = inputs[1]
    /\ inputs[1][1] = FMul(ctrl.Beta, inputs[1][2])

\* C6: without integral action and with every call made at the same
\* equilibrium state == Beta*reference, P = 0 after each call and, once the
\* derivative term has died out, the returned signal is exactly
\* ctrlSignalOffset*ctrlSignalScaling.
C6_EquilibriumOutput ==
    (~ctrl.useIntegralAction /\ AtEquilibrium) =>
        /\ ctrl.P = Zero
        /\ ctrl.D = Zero =>
              controlSignal = FMul(ctrl.ctrlSignalOffset, ctrl.ctrlSignalScaling)

\* The value UpdatePIDControl returned for an axis in the last period.
AxisSignal(axis) ==
    UpdatePIDControl(pidForm, lastPeriod[axis][1], lastPeriod[axis][2],
                     lastPeriod[axis][3]).ret

\* C7: each UpdatePIDControlSignals call writes all four fields of the output
\* struct, each moment with the value its controller computed in that period.
C7_AllFourSignalsWritten ==
    periods > 0 =>
        /\ written = CtrlSignalFields
        /\ \A axis \in {"RollMoment", "PitchMoment", "YawMoment"} :
              ctrlSignals[axis] = AxisSignal(axis)

\* C8: after InitRotationMatrix and any UpdateRotationMatrix calls the stored
\* inverse is the transpose of the DCM and DCM * DCMInv is the identity.
C8_DCMOrthonormal ==
    rotState # "reset" =>
        /\ MatrixData(DCMInv) = MatTranspose(MatrixData(DCM))
        /\ MatMul(MatrixData(DCM), MatrixData(DCMInv)) = Identity3

\* C9: after InitRotationMatrix has returned, and until the next update, the
\* DCM and the inverse DCM are both the 3x3 identity matrix.
C9_InitIsIdentity ==
    rotState = "initialised" =>
        /\ MatrixData(DCM) = Identity3
        /\ MatrixData(DCMInv) = Identity3

\* C10: Vector3DNormalize leaves no NaN or Inf in the destination for a
\* zero-length source, and the source divided by its 2-norm otherwise.
C10_NormalizeRejectsZero ==
    normalizeCalled =>
        IF srcVector = Vec(0, 0, 0)
        THEN \A i \in 1..3 : IsFinite(dstVector[i])
        ELSE \A i \in 1..3 :
                dstVector[i] = FDiv(srcVector[i], FSqrt(Dot3(srcVector, srcVector)))

\* The body reading and the inertial reference of the last call are parallel:
\* both non-zero with a zero cross product.
MagParallel ==
    /\ magCalls > 0
    /\ bodyMagneticReadings # Vec(0, 0, 0)
    /\ inertialMagneticVector # Vec(0, 0, 0)
    /\ Vector3DCrossProduct(bodyMagneticReadings, inertialMagneticVector) = Vec(0, 0, 0)

\* C11: when the body reading and the inertial reference are parallel, in the
\* same or in opposite directions, GetAttitudeFromMagnetometer yields the
\* safe fallback roll = pitch = yaw = 0.
C11_ParallelFallback ==
    MagParallel => dstAttitude = <<AngleZero, asin(Zero), AngleZero>>

\* C12: a body reading made by rotating a non-zero inertial vector by
\* (roll, pitch, yaw) gives back exactly these three angles.
C12_RoundTrip ==
    (magCalls > 0 /\ magAngles # <<>>) =>
        dstAttitude = <<AngleOf(magAngles[1]), AsinOf(magAngles[2]), AngleOf(magAngles[3])>>

\* C13: the roll, pitch and yaw angles one UpdatePIDControlSignals call has
\* read all come from the same completed predict+correct cycle.
C13_AnglesFromOneCycle ==
    (periods > 0 /\ ctrlPc = "RollMoment") =>
        /\ angleRead["pitch"] = angleRead["roll"]
        /\ angleRead["yaw"] = angleRead["roll"]
        /\ angleRead["roll"][2] = "corrected"

\* C14: an interrupt callback changes neither the estimator nor the PID state
\* nor what the sensor task is processing; HAL_GPIO_EXTI_Callback on the gyro
\* data-ready pin posts exactly one FCB_SENSOR_GYRO_DATA_READY tag and changes
\* nothing else, and every other interrupt posts no tag.
C14_InterruptsOnlyEnqueue ==
    [][irqCount' # irqCount =>
          /\ UNCHANGED <<pidVars, ctrlVars, estVars, processing, dispatched>>
          /\ IF lastIrq' = <<"HAL_GPIO_EXTI_Callback", "GPIO_GYRO_DRDY">>
             THEN /\ posted' = Append(posted, FCB_SENSOR_GYRO_DATA_READY)
                  /\ qFcbSensors' \in {qFcbSensors,
                                       Append(qFcbSensors, FCB_SENSOR_GYRO_DATA_READY)}
                  /\ UNCHANGED <<UserButtonPressed, led7, uwTick, rtosTickCalls,
                                 receiverUpdate, errorHandlerCalled>>
             ELSE UNCHANGED <<posted, accepted, qFcbSensors>>]_vars

C14_Witness ==
    /\ lastIrq = <<"HAL_GPIO_EXTI_Callback", "GPIO_GYRO_DRDY">>
    /\ Len(posted) = 4
    /\ Len(qFcbSensors) = 3
    /\ estCycle > 0

\* C17: every HAL_SYSTICK_Callback invocation increments the HAL tick; the
\* RTOS tick handler has not run while the scheduler is not started, and once
\* it is started it has run on every tick since.
C17_RtosTickOnlyAfterStart ==
    /\ uwTick = sysTickIrqs
    /\ schedulerState = "taskSCHEDULER_NOT_STARTED" => rtosTickCalls = 0
    /\ schedulerState # "taskSCHEDULER_NOT_STARTED" =>
          rtosTickCalls = uwTick - uwTickAtStart

C17_Witness ==
    /\ schedulerState = "taskSCHEDULER_SUSPENDED"
    /\ uwTickAtStart >= 2
    /\ rtosTickCalls >= 2

\* The <<state, reference>> of the call before the one a step makes: 0, 0
\* for the first call.
PrecedingInput == IF inputs = <<>> THEN <<Zero, Zero>> ELSE inputs[Len(inputs)]

\* The step is a call whose D is
\* [Td/(Td+N*dt)]*D_prev + [errorGain/(Td+N*dt)]*(Gamma*(reference-preRef) - (state-preState))
\* and which stores its own state and reference as preState and preRef.
DerivativeStep(errorGain) ==
    LET in == inputs'[Len(inputs')]
        den == FAdd(ctrl.Td, FMul(ctrl.N, CONTROL_PERIOD))
        e == FSub(FMul(ctrl.Gamma, FSub(in[2], PrecedingInput[2])),
                  FSub(in[1], PrecedingInput[1]))
    IN  /\ ctrl'.D = FAdd(FMul(FDiv(ctrl.Td, den), ctrl.D), FMul(FDiv(errorGain, den), e))
        /\ ctrl'.preState = in[1]
        /\ ctrl'.preRef = in[2]

\* C16 as stated: after each UpdatePIDControl call D is the filtered
\* derivative with the error gain K*Td*N, taken against the state and the
\* reference of the immediately preceding call (0 for the first call), and the
\* call stores its own state and reference as preState and preRef.
C16_FilteredDerivative ==
    [][inputs' # inputs => DerivativeStep(FMul(FMul(ctrl.K, ctrl.Td), ctrl.N))]_vars

\* C16, amended: the error gain is K*Td*N when PID_USE_CLASSIC_FORM is
\* compiled and Td*N, without K, when PID_USE_PARALLEL_FORM is compiled; with
\* neither macro defined D keeps its value.  In every build the call stores
\* its own state and reference as preState and preRef, saturated or not.
C16_FilteredDerivativePerForm ==
    [][inputs' # inputs =>
          CASE pidForm = "PID_USE_CLASSIC_FORM" ->
                  DerivativeStep(FMul(FMul(ctrl.K, ctrl.Td), ctrl.N))
            [] pidForm = "PID_USE_PARALLEL_FORM" ->
                  DerivativeStep(FMul(ctrl.Td, ctrl.N))
            [] OTHER ->
                  /\ ctrl'.D = ctrl.D
                  /\ ctrl'.preState = inputs'[Len(inputs')][1]
                  /\ ctrl'.preRef = inputs'[Len(inputs')][2]]_vars

C16_Witness ==
    /\ pidForm = "PID_USE_PARALLEL_FORM"
    /\ Len(inputs) = 3
    /\ inputs[2] # <<Zero, Zero>>
    /\ inputs[3] # inputs[2]
    /\ FGt(ctrl.Td, Zero)
    /\ ctrl.D # Zero
    /\ FGt(tmpControlSignal, ctrl.upperSatLimit)
    /\ ctrl.preState = inputs[3][1]
    /\ ctrl.preRef = inputs[3][2]

\* C15: a StopMotorControlSamplingTask call deletes the task, leaves the
\* handle NULL and returns MOTORCTRL_OK exactly when the handle was non-NULL,
\* and otherwise deletes nothing and returns MOTORCTRL_ERROR; no task is
\* deleted twice.
C15_StopDeletesOnce ==
    /\ lastStop.caller # "none" =>
          IF lastStop.handleBefore # NULL
          THEN /\ lastStop.deleted = lastStop.handleBefore
               /\ lastStop.handleAfter = NULL
               /\ lastStop.ret = "MOTORCTRL_OK"
          ELSE /\ lastStop.deleted = NULL
               /\ lastStop.handleAfter = NULL
               /\ lastStop.ret = "MOTORCTRL_ERROR"
    /\ \A id \in TaskIds : taskLog[id].deletions <= 1

\* C18: at most one print sampling task exists, and the handle is non-NULL
\* exactly when that task exists and then refers to it.
C18_OneTaskOwnedByHandle ==
    /\ Cardinality(AliveTasks) <= 1
    /\ MotorControlPrintSamplingTaskHandle # NULL <=> AliveTasks # {}
    /\ MotorControlPrintSamplingTaskHandle # NULL =>
          MotorControlPrintSamplingTaskHandle \in AliveTasks

\* The tick at which the task's sampling duration, as asked for, is over.
ExpiryTick(id) ==
    tasks[id].xSampleStartTime + taskLog[id].sampleDuration * configTICK_RATE_HZ

\* C19: a sampling task is not deleted by its own expiry check before
\* sampleDuration*configTICK_RATE_HZ ticks have passed since its start; at its
\* first wake-up at or after that time it is deleted, so it never stays alive
\* past such a wake-up, and the handle no longer refers to it.
C19_DeletedAtExpiry ==
    \A id \in TaskIds :
        /\ taskLog[id].deletedAt >= 0 =>
              /\ taskLog[id].deletedAt >= ExpiryTick(id)
              /\ MotorControlPrintSamplingTaskHandle # id
        /\ tasks[id].state = "delaying" => taskLog[id].lastWakeTick < ExpiryTick(id)

====
